---- MODULE Spec2Model ----
(***************************************************************************)
(* Model of the Image Enhancer application: the enhancement client         *)
(* (services/geminiService.ts, enhanceImage), the history store            *)
(* (utils/historyStorage.ts) and the application controller (App.tsx).     *)
(*                                                                         *)
(* JavaScript strings that the code only stores and compares are TLA+      *)
(* strings.  Strings that the code searches, splits or concatenates        *)
(* (error messages, response text) are sequences of tokens; the empty      *)
(* string is the empty sequence.  An optional string of that kind is a     *)
(* record [def, msg]; an optional stored string is the value Undefined.    *)
(***************************************************************************)
EXTENDS Integers, Sequences, FiniteSets, TLC

\* ------------------------------------------------------------------------
\* Bounds of the model
\* ------------------------------------------------------------------------
\* longest part list of a provider response
MaxParts == 2
\* longest provider error message, in tokens
MaxMsgLen == 3
\* number of successful enhancements (history ids) one run generates
MaxEnhancements == 2

\* ------------------------------------------------------------------------
\* JavaScript values
\* ------------------------------------------------------------------------
Undefined == "undefined"

\* truthiness of an optional stored string: undefined and "" are falsy
Truthy(s) == s # Undefined /\ s # ""

UndefinedStr == [def |-> FALSE, msg |-> <<>>]

Str(m) == [def |-> TRUE, msg |-> m]

\* truthiness of an optional token string
TruthyStr(s) == s.def /\ s.msg # <<>>

\* statusCode?: number, left undefined
NoStatus == 0

\* all sequences over S of length at most n
RECURSIVE SeqsUpTo(_, _)
SeqsUpTo(S, n) ==
    IF n = 0 THEN {<<>>}
    ELSE LET shorter == SeqsUpTo(S, n - 1)
         IN  shorter \cup {Append(s, x) : s \in {t \in shorter : Len(t) = n - 1}, x \in S}

\* String.prototype.includes for a one-token needle
Includes(msg, token) == \E i \in 1..Len(msg) : msg[i] = token

\* index of the first occurrence of the token sequence sep in msg at or
\* after position from, 0 when there is none
RECURSIVE IndexOf(_, _, _)
IndexOf(msg, sep, from) ==
    IF from + Len(sep) - 1 > Len(msg) THEN 0
    ELSE IF SubSeq(msg, from, from + Len(sep) - 1) = sep THEN from
    ELSE IndexOf(msg, sep, from + 1)

\* message.split(sep)[1]: the text between the first and the second
\* occurrence of sep; undefined when sep does not occur
SplitSecond(msg, sep) ==
    LET i == IndexOf(msg, sep, 1)
    IN  IF i = 0 THEN UndefinedStr
        ELSE LET start == i + Len(sep)
                 j == IndexOf(msg, sep, start)
             IN  IF j = 0 THEN Str(SubSeq(msg, start, Len(msg)))
                 ELSE Str(SubSeq(msg, start, j - 1))

\* ------------------------------------------------------------------------
\* types.ts: ApiError, thrown values and results of an async call
\* ------------------------------------------------------------------------
ApiError(message, statusCode, errorType, errorDetails) ==
    [class |-> "ApiError", message |-> message, statusCode |-> statusCode,
     errorType |-> errorType, errorDetails |-> errorDetails]

\* a plain Error (or a subclass that is not the application's ApiError)
PlainError(message) ==
    [class |-> "Error", message |-> message, statusCode |-> NoStatus,
     errorType |-> Undefined, errorDetails |-> UndefinedStr]

\* a thrown value that is not an Error instance
NonError ==
    [class |-> "other", message |-> <<>>, statusCode |-> NoStatus,
     errorType |-> Undefined, errorDetails |-> UndefinedStr]

NoErr ==
    [class |-> "none", message |-> <<>>, statusCode |-> NoStatus,
     errorType |-> Undefined, errorDetails |-> UndefinedStr]

Return(data) == [tag |-> "return", value |-> data, err |-> NoErr]

Throw(e) == [tag |-> "throw", value |-> Undefined, err |-> e]

\* no enhanceImage call has settled yet
NoResult == [tag |-> "none", value |-> Undefined, err |-> NoErr]

\* ------------------------------------------------------------------------
\* The provider: what generateContent resolves or rejects with
\* ------------------------------------------------------------------------
NOT_FOUND == "Requested entity was not found."
M400 == "400 BAD_REQUEST"
M403 == "403 PERMISSION_DENIED"
M429 == "429 RESOURCE_EXHAUSTED"
M500 == "500 INTERNAL_SERVER_ERROR"
COLON == ": "

MsgTokens == {NOT_FOUND, M400, M403, M429, M500, COLON, "quota"}

\* ApiResponsePart: inlineData?.data and text, both optional
Part(data, text) == [data |-> data, text |-> text]

PartValues ==
    { Part("Y", UndefinedStr), Part("Z", UndefinedStr), Part("", UndefinedStr),
      Part(Undefined, Str(<<"sorry">>)), Part(Undefined, Str(<<>>)),
      Part(Undefined, UndefinedStr), Part("Y", Str(<<"sorry">>)) }

\* a response: cand tells how much of response.candidates[0].content.parts
\* exists ("none": no candidate, "nocontent": a candidate without content,
\* "noparts": content without a parts list, "parts": a parts list)
Response(cand, parts) ==
    [kind |-> "response", cand |-> cand, parts |-> parts, thrown |-> NoErr]

Rejection(e) ==
    [kind |-> "throw", cand |-> "none", parts |-> <<>>, thrown |-> e]

Responses ==
    {Response(c, <<>>) : c \in {"none", "nocontent", "noparts"}}
        \cup {Response("parts", ps) : ps \in SeqsUpTo(PartValues, MaxParts)}

Rejections ==
    {Rejection(PlainError(m)) : m \in SeqsUpTo(MsgTokens, MaxMsgLen)}
        \cup {Rejection(NonError)}

ProviderOutcomes == Responses \cup Rejections

\* a search that keeps the last part whose inline data is truthy
FindImagePart_Last(parts, i) ==
    IF \E j \in i..Len(parts) : Truthy(parts[j].data)
    THEN CHOOSE j \in i..Len(parts) :
             /\ Truthy(parts[j].data)
             /\ \A k \in i..Len(parts) : Truthy(parts[k].data) => k <= j
    ELSE 0

\* Array.prototype.find with the predicate part.inlineData?.data: the first
\* part, in list order, whose inline data is truthy; 0 when there is none
RECURSIVE FindImagePart(_, _)
FindImagePart(parts, i) ==
    IF i > Len(parts) THEN 0
    ELSE IF Truthy(parts[i].data) THEN i
    ELSE FindImagePart(parts, i + 1)

\* GenerateContentResponse.text: the text parts of the first candidate
\* concatenated, undefined when no part carries text
RECURSIVE ConcatText(_, _)
ConcatText(parts, i) ==
    IF i > Len(parts) THEN <<>>
    ELSE (IF parts[i].text.def THEN parts[i].text.msg ELSE <<>>) \o ConcatText(parts, i + 1)

ResponseText(response) ==
    IF response.cand = "parts" /\ \E i \in 1..Len(response.parts) : response.parts[i].text.def
    THEN Str(ConcatText(response.parts, 1))
    ELSE UndefinedStr

\* ------------------------------------------------------------------------
\* services/geminiService.ts: enhanceImage
\* ------------------------------------------------------------------------
API_KEY_ERROR == "API Key error: Please select a valid API key from a paid GCP project. You might need to re-select your API key."
UNKNOWN_ENHANCE == "An unknown error occurred during image enhancement."
NO_IMAGE_FOUND == "No enhanced image data found in the response."
FIND_TYPE_ERROR == "Cannot read properties of undefined (reading 'find')"
KEY_NOT_SET == "API_KEY is not set."

\* the status markers tested in another order: internal-error first
StatusMarkers_InternalFirst ==
    << [marker |-> M500, statusCode |-> 500, errorType |-> "INTERNAL_SERVER_ERROR"],
       [marker |-> M400, statusCode |-> 400, errorType |-> "BAD_REQUEST"],
       [marker |-> M403, statusCode |-> 403, errorType |-> "PERMISSION_DENIED"],
       [marker |-> M429, statusCode |-> 429, errorType |-> "RESOURCE_EXHAUSTED"] >>

\* the status markers in the order the else-if chain tests them
StatusMarkers ==
    << [marker |-> M400, statusCode |-> 400, errorType |-> "BAD_REQUEST"],
       [marker |-> M403, statusCode |-> 403, errorType |-> "PERMISSION_DENIED"],
       [marker |-> M429, statusCode |-> 429, errorType |-> "RESOURCE_EXHAUSTED"],
       [marker |-> M500, statusCode |-> 500, errorType |-> "INTERNAL_SERVER_ERROR"] >>

\* a chain whose detail has no fallback to the whole message
RECURSIVE ClassifyMarkers_NoFallback(_, _)
ClassifyMarkers_NoFallback(message, k) ==
    IF k > Len(StatusMarkers)
    THEN [statusCode |-> NoStatus, errorType |-> "UNKNOWN_ERROR", errorDetails |-> UndefinedStr]
    ELSE IF Includes(message, StatusMarkers[k].marker)
    THEN [statusCode |-> StatusMarkers[k].statusCode,
          errorType |-> StatusMarkers[k].errorType,
          errorDetails |-> SplitSecond(message, <<StatusMarkers[k].marker, COLON>>)]
    ELSE ClassifyMarkers_NoFallback(message, k + 1)

\* the else-if chain over the status markers, from entry k on
RECURSIVE ClassifyMarkers(_, _)
ClassifyMarkers(message, k) ==
    IF k > Len(StatusMarkers)
    THEN [statusCode |-> NoStatus, errorType |-> "UNKNOWN_ERROR", errorDetails |-> UndefinedStr]
    ELSE IF Includes(message, StatusMarkers[k].marker)
    THEN LET rest == SplitSecond(message, <<StatusMarkers[k].marker, COLON>>)
         IN  [statusCode |-> StatusMarkers[k].statusCode,
              errorType |-> StatusMarkers[k].errorType,
              errorDetails |-> IF TruthyStr(rest) THEN rest ELSE Str(message)]
    ELSE ClassifyMarkers(message, k + 1)

\* a catch block without its instanceof ApiError test: an ApiError is
\* classified again like any other Error
EnhanceCatch_Reclassifies(error) ==
    IF error.class \in {"ApiError", "Error"}
    THEN IF Includes(error.message, NOT_FOUND)
         THEN ApiError(<<API_KEY_ERROR>>, 401, "API_KEY_INVALID", UndefinedStr)
         ELSE LET c == ClassifyMarkers(error.message, 1)
              IN  ApiError(IF error.message # <<>> THEN error.message ELSE <<UNKNOWN_ENHANCE>>,
                           c.statusCode, c.errorType, c.errorDetails)
    ELSE ApiError(<<UNKNOWN_ENHANCE>>, 500, "UNKNOWN_ERROR", UndefinedStr)

\* a catch block that gives every unclassified Error the generic message
EnhanceCatch_GenericMessage(error) ==
    IF error.class = "ApiError" THEN error
    ELSE IF error.class = "Error"
    THEN IF Includes(error.message, NOT_FOUND)
         THEN ApiError(<<API_KEY_ERROR>>, 401, "API_KEY_INVALID", UndefinedStr)
         ELSE LET c == ClassifyMarkers(error.message, 1)
              IN  ApiError(IF c.errorType # "UNKNOWN_ERROR" THEN error.message
                           ELSE <<UNKNOWN_ENHANCE>>,
                           c.statusCode, c.errorType, c.errorDetails)
    ELSE ApiError(<<UNKNOWN_ENHANCE>>, 500, "UNKNOWN_ERROR", UndefinedStr)

\* the catch block of enhanceImage: what it rethrows for a caught value
EnhanceCatch(error) ==
    IF error.class = "ApiError" THEN error
    ELSE IF error.class = "Error"
    THEN IF Includes(error.message, NOT_FOUND)
         THEN ApiError(<<API_KEY_ERROR>>, 401, "API_KEY_INVALID", UndefinedStr)
         ELSE LET c == ClassifyMarkers(error.message, 1)
              IN  ApiError(IF error.message # <<>> THEN error.message ELSE <<UNKNOWN_ENHANCE>>,
                           c.statusCode, c.errorType, c.errorDetails)
    ELSE ApiError(<<UNKNOWN_ENHANCE>>, 500, "UNKNOWN_ERROR", UndefinedStr)

\* the try block after generateContent resolved with response
EnhanceTry(response) ==
    IF response.cand = "noparts"
    THEN Throw(EnhanceCatch(PlainError(<<FIND_TYPE_ERROR>>)))
    ELSE LET parts == IF response.cand = "parts" THEN response.parts ELSE <<>>
             found == FindImagePart(parts, 1)
             textExplanation == ResponseText(response)
         IN  IF found # 0 THEN Return(parts[found].data)
             ELSE IF TruthyStr(textExplanation)
             THEN Throw(EnhanceCatch(ApiError(
                      <<"Model returned text: \"">> \o textExplanation.msg
                          \o <<"\". No image data found.">>,
                      200, "MODEL_TEXT_RESPONSE", textExplanation)))
             ELSE Throw(EnhanceCatch(ApiError(<<NO_IMAGE_FOUND>>, 500, "NO_IMAGE_DATA", UndefinedStr)))

\* enhanceImage from the point where generateContent settles with outcome
enhanceImageSettle(outcome) ==
    IF outcome.kind = "throw" THEN Throw(EnhanceCatch(outcome.thrown))
    ELSE EnhanceTry(outcome)

\* ------------------------------------------------------------------------
\* constants.ts, components/ImageUploader.tsx: the inputs of the application
\* ------------------------------------------------------------------------
DEFAULT_RESOLUTION == "1K"

RESOLUTION_OPTIONS == {"1K", "2K", "4K"}

ALLOWED_MIME_TYPES == {"image/jpeg", "image/png", "image/webp"}

\* a file the user offers: its base64 content, its type and whether its
\* size exceeds MAX_FILE_SIZE_MB
File(data, type, tooLarge) == [data |-> data, type |-> type, tooLarge |-> tooLarge]

Files ==
    { File("A", "image/png", FALSE), File("B", "image/jpeg", FALSE),
      File("A", "image/gif", FALSE), File("B", "image/png", TRUE) }

\* the options the user picks in the resolution select
Resolutions == {"1K", "4K"}

\* the texts the user types into the prompt field
Prompts == {"", "make it blue"}

UNSUPPORTED_TYPE == "Unsupported file type"
FILE_TOO_LARGE == "File size exceeds 5MB. Please upload a smaller image."

validateFile(file) ==
    IF file.type \notin ALLOWED_MIME_TYPES THEN Str(<<UNSUPPORTED_TYPE>>)
    ELSE IF file.tooLarge THEN Str(<<FILE_TOO_LARGE>>)
    ELSE UndefinedStr

\* ------------------------------------------------------------------------
\* State
\* ------------------------------------------------------------------------
VARIABLES
    env,                    \* process.env.API_KEY and window.aistudio
    originalImage,          \* App state
    originalImageMimeType,
    prompt,
    enhancedImage,
    isLoading,
    error,
    hasApiKeySelected,
    selectedResolution,
    showHistory,
    historyItems,
    reads,                  \* FileReader loads that have not ended
    storage,                \* localStorage[STORAGE_KEY]
    initPc,                 \* position of initializeApp
    inflight,               \* generateContent calls that have not settled
    selectPending,          \* openSelectKey calls that have not settled
    nextId,                 \* number of ids crypto.randomUUID has produced
    observed,               \* what a direct caller of enhanceImage saw last
    currentLoadingMessage,  \* App state: the status message
    messageIndex,           \* the index kept by the message effect
    interval                \* the setInterval timer of the message effect is armed

appVars ==
    <<originalImage, originalImageMimeType, prompt, enhancedImage, isLoading,
      error, hasApiKeySelected, selectedResolution, showHistory, historyItems>>

timerVars == <<currentLoadingMessage, messageIndex, interval>>

vars ==
    <<env, originalImage, originalImageMimeType, prompt, enhancedImage, isLoading,
      error, hasApiKeySelected, selectedResolution, showHistory, historyItems,
      reads, storage, initPc, inflight, selectPending, nextId, observed,
      currentLoadingMessage, messageIndex, interval>>

\* ------------------------------------------------------------------------
\* utils/historyStorage.ts
\* ------------------------------------------------------------------------
\* localStorage as the store sees it: mode tells how the browser answers
\* ("ok"; "full": a write that makes the blob longer throws
\* QuotaExceededError; "unavailable": every access throws), json tells what
\* is kept under STORAGE_KEY ("absent": no entry, "empty": the empty
\* string, "malformed": text JSON.parse rejects, "object": JSON that is not
\* an array, "list": a serialized list, whose records are items)
StorageModes == {"ok", "full", "unavailable"}

Storage(mode, json, items) == [mode |-> mode, json |-> json, items |-> items]

EmptyStorage == Storage("ok", "absent", <<>>)

\* what JSON.parse gives for JSON that is not an array
NotAList == "object"

SECURITY_ERROR == "The operation is insecure."
QUOTA_ERROR == "The quota has been exceeded."
SYNTAX_ERROR == "Unexpected token in JSON"
NOT_ITERABLE == "history is not iterable"
NOT_A_FUNCTION == "history.filter is not a function"

\* number of records the blob holds, as a measure of its length
StoredLen(store) == IF store.json = "list" THEN Len(store.items) ELSE 0

\* localStorage.getItem(STORAGE_KEY)
getItem(store) ==
    IF store.mode = "unavailable" THEN Throw(PlainError(<<SECURITY_ERROR>>))
    ELSE Return(store)

\* localStorage.setItem(STORAGE_KEY, JSON.stringify(items)); the value
\* returned is the storage after the call
setItem(store, items) ==
    IF store.mode = "unavailable" THEN Throw(PlainError(<<SECURITY_ERROR>>))
    ELSE IF store.mode = "full" /\ Len(items) > StoredLen(store)
    THEN Throw(PlainError(<<QUOTA_ERROR>>))
    ELSE Return(Storage(store.mode, "list", items))

\* a removeItem that leaves the entry where it is
removeItem_Keeps(store) == Return(store)

\* localStorage.removeItem(STORAGE_KEY)
removeItem(store) ==
    IF store.mode = "unavailable" THEN Throw(PlainError(<<SECURITY_ERROR>>))
    ELSE Return(Storage(store.mode, "absent", <<>>))

\* JSON.parse of the blob
parse(store) ==
    IF store.json = "malformed" THEN Throw(PlainError(<<SYNTAX_ERROR>>))
    ELSE IF store.json = "list" THEN Return(store.items)
    ELSE Return(NotAList)

\* the try block of getHistory
getHistoryTry(store) ==
    LET historyString == getItem(store)
    IN  IF historyString.tag = "throw" THEN historyString
        ELSE IF store.json \in {"absent", "empty"} THEN Return(<<>>)
        ELSE parse(store)

\* getHistory with its catch block: how the call ends
getHistoryResult(store) ==
    LET tried == getHistoryTry(store)
    IN  IF tried.tag = "throw" THEN Return(<<>>) ELSE tried

\* the value getHistory returns
getHistory(store) == getHistoryResult(store).value

\* a save that puts the new record behind the stored ones
saveHistoryItemTry_Appends(store, item) ==
    LET history == getHistory(store)
    IN  IF history = NotAList THEN Throw(PlainError(<<NOT_ITERABLE>>))
        ELSE setItem(store, history \o <<item>>)

\* the try block of saveHistoryItem
saveHistoryItemTry(store, item) ==
    LET history == getHistory(store)
    IN  IF history = NotAList THEN Throw(PlainError(<<NOT_ITERABLE>>))
        ELSE setItem(store, <<item>> \o history)

\* saveHistoryItem without its catch block
saveHistoryItemResult_NoCatch(store, item) == saveHistoryItemTry(store, item)

\* saveHistoryItem with its catch block: how the call ends, the value
\* being the storage it leaves
saveHistoryItemResult(store, item) ==
    LET tried == saveHistoryItemTry(store, item)
    IN  IF tried.tag = "throw" THEN Return(store) ELSE tried

\* the storage saveHistoryItem leaves
saveHistoryItem(store, item) == saveHistoryItemResult(store, item).value

\* clearHistory with its catch block
clearHistoryResult(store) ==
    LET tried == removeItem(store)
    IN  IF tried.tag = "throw" THEN Return(store) ELSE tried

clearHistory(store) == clearHistoryResult(store).value

\* a removal that drops the newest record, whatever its id
removeHistoryItemTry_DropsNewest(store, id) ==
    LET history == getHistory(store)
    IN  IF history = NotAList THEN Throw(PlainError(<<NOT_A_FUNCTION>>))
        ELSE setItem(store, IF history = <<>> THEN <<>> ELSE Tail(history))

\* the try block of removeHistoryItem
removeHistoryItemTry(store, id) ==
    LET history == getHistory(store)
    IN  IF history = NotAList THEN Throw(PlainError(<<NOT_A_FUNCTION>>))
        ELSE setItem(store, SelectSeq(history, LAMBDA item : item.id # id))

\* removeHistoryItem with its catch block
removeHistoryItemResult(store, id) ==
    LET tried == removeHistoryItemTry(store, id)
    IN  IF tried.tag = "throw" THEN Return(store) ELSE tried

removeHistoryItem(store, id) == removeHistoryItemResult(store, id).value

\* ------------------------------------------------------------------------
\* App.tsx: the application controller
\* ------------------------------------------------------------------------
MSG_NEED_INPUT == "Please upload an image and provide an enhancement prompt."
MSG_NOT_CONFIGURED == "API_KEY is not configured. Please select your API key."
MSG_SELECT_FIRST == "Please select your API key before enhancing images."
MSG_KEY_INVALID == "API Key Invalid or Missing Permissions: "
MSG_RESELECT == ". Please re-select your API key."
MSG_PERMISSION == "Permission Denied: Your API key might not have the necessary permissions. Please check your GCP project settings."
MSG_BAD_REQUEST == "Invalid Request: The AI could not process your request. Please refine your prompt, image, or resolution. Details: "
MSG_RATE_LIMIT == "Rate Limit Exceeded: You've sent too many requests. Please wait a moment and try again."
MSG_TEXT_PREFIX == "The AI responded with text instead of an image: \""
MSG_TEXT_SUFFIX == "\". Please adjust your prompt."
MSG_API_ERROR == "An API error occurred: "
MSG_UNKNOWN_API == "Unknown API error."
MSG_UNEXPECTED == "An unexpected error occurred: "
MSG_SELECT_FAILED == "Failed to open API key selection. Please try again."
MSG_NO_AISTUDIO == "window.aistudio.openSelectKey() is not available. Ensure you are in the correct environment."

\* the button's disabled attribute without its prompt term
isEnhanceButtonDisabled_IgnoresPrompt ==
    isLoading \/ ~Truthy(originalImage) \/ ~hasApiKeySelected

\* the button's disabled attribute without its isLoading term
isEnhanceButtonDisabled_IgnoresLoading ==
    ~Truthy(originalImage) \/ ~Truthy(prompt) \/ ~hasApiKeySelected

\* isEnhanceButtonDisabled (useMemo)
isEnhanceButtonDisabled ==
    isLoading \/ ~Truthy(originalImage) \/ ~Truthy(prompt) \/ ~hasApiKeySelected

\* a catch block that shows the message and never resets the flag
EnhanceFailure_NoReset(err) ==
    [reset |-> FALSE,
     message |-> IF err.class = "none" THEN <<UNKNOWN_ENHANCE>>
                 ELSE <<MSG_API_ERROR>> \o err.message]

\* a catch block that resets the flag on a permission failure as well
EnhanceFailure_ResetsOnPermission(err) ==
    IF err.class = "ApiError"
    THEN [reset |-> err.statusCode \in {401, 403}
                       \/ err.errorType \in {"API_KEY_INVALID", "PERMISSION_DENIED"},
          message |-> <<MSG_API_ERROR>> \o err.message]
    ELSE [reset |-> FALSE, message |-> <<UNKNOWN_ENHANCE>>]

\* the catch block of handleEnhanceClick: the message shown and whether
\* the credential-selected flag is reset
EnhanceFailure(err) ==
    IF err.class = "ApiError"
    THEN IF err.statusCode = 401 \/ err.errorType = "API_KEY_INVALID"
         THEN [reset |-> TRUE,
               message |-> <<MSG_KEY_INVALID>> \o err.message \o <<MSG_RESELECT>>]
         ELSE IF err.statusCode = 403 \/ err.errorType = "PERMISSION_DENIED"
         THEN [reset |-> FALSE, message |-> <<MSG_PERMISSION>>]
         ELSE IF err.statusCode = 400 \/ err.errorType = "BAD_REQUEST"
         THEN [reset |-> FALSE, message |-> <<MSG_BAD_REQUEST>> \o err.message]
         ELSE IF err.statusCode = 429 \/ err.errorType = "RESOURCE_EXHAUSTED"
         THEN [reset |-> FALSE, message |-> <<MSG_RATE_LIMIT>>]
         ELSE IF err.errorType = "MODEL_TEXT_RESPONSE"
         THEN [reset |-> FALSE,
               message |-> <<MSG_TEXT_PREFIX>>
                   \o (IF err.errorDetails.def THEN err.errorDetails.msg ELSE <<Undefined>>)
                   \o <<MSG_TEXT_SUFFIX>>]
         ELSE [reset |-> FALSE,
               message |-> <<MSG_API_ERROR>>
                   \o (IF err.message # <<>> THEN err.message ELSE <<MSG_UNKNOWN_API>>)]
    ELSE IF err.class = "Error"
    THEN IF Includes(err.message, API_KEY_ERROR)
         THEN [reset |-> TRUE, message |-> err.message]
         ELSE [reset |-> FALSE, message |-> <<MSG_UNEXPECTED>> \o err.message]
    ELSE [reset |-> FALSE, message |-> <<UNKNOWN_ENHANCE>>]

\* the arguments a call of enhanceImage was made with, and who made it
Request(caller, image, mime, text, resolution) ==
    [caller |-> caller, originalImage |-> image, originalImageMimeType |-> mime,
     prompt |-> text, resolution |-> resolution]

\* what generateContent settled with and what enhanceImage then returned
\* or threw, as seen by a caller other than the controller
Observed(outcome, result) == [outcome |-> outcome, result |-> result]

\* enhanceImage threw before it called the provider
NotCalled == [kind |-> "none", cand |-> "none", parts |-> <<>>, thrown |-> NoErr]

NothingObserved == Observed(NotCalled, NoResult)

RemoveAt(seq, i) == SubSeq(seq, 1, i - 1) \o SubSeq(seq, i + 1, Len(seq))

\* the state after construction, with localStorage as the session finds it
InitWith(storages) ==
    /\ env \in [apiKey : BOOLEAN, aistudio : BOOLEAN]
    /\ originalImage = Undefined
    /\ originalImageMimeType = Undefined
    /\ prompt = ""
    /\ enhancedImage = Undefined
    /\ isLoading = FALSE
    /\ error = UndefinedStr
    /\ hasApiKeySelected = TRUE
    /\ selectedResolution = DEFAULT_RESOLUTION
    /\ showHistory = FALSE
    /\ historyItems = <<>>
    /\ reads = <<>>
    /\ storage \in storages
    /\ initPc = "start"
    /\ inflight = <<>>
    /\ selectPending = 0
    /\ nextId = 0
    /\ observed = NothingObserved
    /\ currentLoadingMessage = ""
    /\ messageIndex = 0
    /\ interval = FALSE

\* a first session in a browser whose localStorage works
Init == InitWith({EmptyStorage})

\* ------------------------------------------------------------------------
\* Mount: initializeApp
\* ------------------------------------------------------------------------
\* a mount effect whose fallback takes the credential for selected
InitializeApp_FallbackSelected ==
    /\ initPc = "start"
    /\ historyItems' = getHistory(storage)
    /\ IF env.aistudio
       THEN /\ initPc' = "awaitHasSelectedApiKey"
            /\ UNCHANGED hasApiKeySelected
       ELSE /\ initPc' = "done"
            /\ hasApiKeySelected' = TRUE
    /\ UNCHANGED <<env, originalImage, originalImageMimeType, prompt, enhancedImage,
                   isLoading, error, selectedResolution, showHistory, reads, storage,
                   inflight, selectPending, nextId, observed>>
    /\ UNCHANGED timerVars

\* the mount effect up to its await (or to its end without window.aistudio)
InitializeApp ==
    /\ initPc = "start"
    /\ historyItems' = getHistory(storage)
    /\ IF env.aistudio
       THEN /\ initPc' = "awaitHasSelectedApiKey"
            /\ UNCHANGED hasApiKeySelected
       ELSE /\ initPc' = "done"
            /\ hasApiKeySelected' = env.apiKey
    /\ UNCHANGED <<env, originalImage, originalImageMimeType, prompt, enhancedImage,
                   isLoading, error, selectedResolution, showHistory, reads, storage,
                   inflight, selectPending, nextId, observed>>
    /\ UNCHANGED timerVars

\* window.aistudio.hasSelectedApiKey() resolves with selected
HasSelectedApiKeyResolves(selected) ==
    /\ initPc = "awaitHasSelectedApiKey"
    /\ initPc' = "done"
    /\ hasApiKeySelected' = selected
    /\ UNCHANGED <<env, originalImage, originalImageMimeType, prompt, enhancedImage,
                   isLoading, error, selectedResolution, showHistory, historyItems,
                   reads, storage, inflight, selectPending, nextId, observed>>
    /\ UNCHANGED timerVars

\* the view is rendered and its effects have run: user events are handled
Mounted == initPc \in {"awaitHasSelectedApiKey", "done"}

\* ------------------------------------------------------------------------
\* The status message: the effect on isLoading, its timer and its cleanup
\* ------------------------------------------------------------------------
LOADING_MESSAGES ==
    << "Analyzing pixels with AI...",
       "Applying neural magic...",
       "Enhancing details...",
       "Generating artistic touch...",
       "Just a moment, your masterpiece is brewing...",
       "Our AI is hard at work!" >>

\* an effect that returns no cleanup: the timer stays armed
LoadingEffect_NoCleanup ==
    IF isLoading' = isLoading THEN UNCHANGED timerVars
    ELSE IF isLoading'
    THEN /\ messageIndex' = 0
         /\ currentLoadingMessage' = LOADING_MESSAGES[1]
         /\ interval' = TRUE
    ELSE UNCHANGED timerVars

\* the effect with dependency [isLoading], run with the render in which
\* isLoading changed: when it became true the first message is shown and
\* the timer armed, when it became false the cleanup of the previous run
\* clears the timer
LoadingEffect ==
    IF isLoading' = isLoading THEN UNCHANGED timerVars
    ELSE IF isLoading'
    THEN /\ messageIndex' = 0
         /\ currentLoadingMessage' = LOADING_MESSAGES[1]
         /\ interval' = TRUE
    ELSE /\ interval' = FALSE
         /\ UNCHANGED <<currentLoadingMessage, messageIndex>>

\* the callback of setInterval, every 3 seconds while the timer is armed
Tick ==
    /\ interval
    /\ messageIndex' = (messageIndex + 1) % Len(LOADING_MESSAGES)
    /\ currentLoadingMessage' = LOADING_MESSAGES[messageIndex' + 1]
    /\ UNCHANGED <<env, appVars, reads, storage, initPc, inflight, selectPending,
                   nextId, observed, interval>>

\* the component unmounts: the cleanup of the message effect runs and from
\* then on no event reaches a handler and no state update is applied
Unmount ==
    /\ Mounted
    /\ initPc' = "unmounted"
    /\ interval' = FALSE
    /\ UNCHANGED <<env, appVars, reads, storage, inflight, selectPending,
                   nextId, observed, currentLoadingMessage, messageIndex>>

\* ------------------------------------------------------------------------
\* ImageUploader: choosing, dropping and reading a file
\* ------------------------------------------------------------------------
MaxPendingReads == 1

processFile(file) ==
    LET validationError == validateFile(file)
    IN  IF validationError.def
        THEN UNCHANGED reads
        ELSE reads' = Append(reads, file)

\* handleFileChange: the file input, which is disabled while loading
ChooseFile(file) ==
    /\ Mounted
    /\ ~isLoading
    /\ Len(reads) < MaxPendingReads
    /\ processFile(file)
    /\ UNCHANGED <<env, appVars, storage, initPc, inflight, selectPending, nextId, observed>>
    /\ UNCHANGED timerVars

\* handleDrop: the drop zone, which has no disabled state
DropFile(file) ==
    /\ Mounted
    /\ Len(reads) < MaxPendingReads
    /\ processFile(file)
    /\ UNCHANGED <<env, appVars, storage, initPc, inflight, selectPending, nextId, observed>>
    /\ UNCHANGED timerVars

\* an upload handler that leaves the enhanced image where it is
handleImageSelected_KeepsResult(base64Image, mimeType) ==
    /\ originalImage' = base64Image
    /\ originalImageMimeType' = mimeType
    /\ enhancedImage' = enhancedImage
    /\ error' = UndefinedStr

\* handleImageSelected
handleImageSelected(base64Image, mimeType) ==
    /\ originalImage' = base64Image
    /\ originalImageMimeType' = mimeType
    /\ enhancedImage' = Undefined
    /\ error' = UndefinedStr

\* reader.onloadend of the i-th pending read; after an unmount the state
\* updates of onImageSelected are dropped
ReadEnds(i) ==
    /\ i \in 1..Len(reads)
    /\ IF Mounted
       THEN handleImageSelected(reads[i].data, reads[i].type)
       ELSE UNCHANGED <<originalImage, originalImageMimeType, enhancedImage, error>>
    /\ reads' = RemoveAt(reads, i)
    /\ UNCHANGED <<env, prompt, isLoading, hasApiKeySelected, selectedResolution,
                   showHistory, historyItems, storage, initPc, inflight,
                   selectPending, nextId, observed>>
    /\ UNCHANGED timerVars

\* ------------------------------------------------------------------------
\* Prompt, resolution, clear
\* ------------------------------------------------------------------------
\* the prompt input: rendered with an image, disabled while loading
SetPrompt(text) ==
    /\ Mounted
    /\ Truthy(originalImage)
    /\ ~isLoading
    /\ prompt' = text
    /\ UNCHANGED <<env, originalImage, originalImageMimeType, enhancedImage, isLoading,
                   error, hasApiKeySelected, selectedResolution, showHistory,
                   historyItems, reads, storage, initPc, inflight,
                   selectPending, nextId, observed>>
    /\ UNCHANGED timerVars

\* the resolution select: rendered with an image, disabled while loading
SetSelectedResolution(resolution) ==
    /\ Mounted
    /\ Truthy(originalImage)
    /\ ~isLoading
    /\ selectedResolution' = resolution
    /\ UNCHANGED <<env, originalImage, originalImageMimeType, prompt, enhancedImage,
                   isLoading, error, hasApiKeySelected, showHistory, historyItems,
                   reads, storage, initPc, inflight, selectPending,
                   nextId, observed>>
    /\ UNCHANGED timerVars

\* a clear handler that leaves the resolution where it is
handleClearOriginalImage_KeepsResolution ==
    /\ originalImage' = Undefined
    /\ originalImageMimeType' = Undefined
    /\ prompt' = ""
    /\ enhancedImage' = Undefined
    /\ error' = UndefinedStr
    /\ selectedResolution' = selectedResolution

\* handleClearOriginalImage
handleClearOriginalImage ==
    /\ originalImage' = Undefined
    /\ originalImageMimeType' = Undefined
    /\ prompt' = ""
    /\ enhancedImage' = Undefined
    /\ error' = UndefinedStr
    /\ selectedResolution' = DEFAULT_RESOLUTION

\* a click on the uploader's Clear Image button (handleClear) or on the
\* display's Clear All button (handleClearAll): both are disabled while
\* loading and both end in handleClearOriginalImage
ClearClick ==
    /\ Mounted
    /\ Truthy(originalImage) \/ Truthy(enhancedImage)
    /\ ~isLoading
    /\ handleClearOriginalImage
    /\ UNCHANGED <<env, isLoading, hasApiKeySelected, showHistory, historyItems, reads,
                   storage, initPc, inflight, selectPending, nextId, observed>>
    /\ UNCHANGED timerVars

\* ------------------------------------------------------------------------
\* Enhancement: handleEnhanceClick and the settling of enhanceImage
\* ------------------------------------------------------------------------
\* a client that retries: the call is handed to the provider twice
generateContent_Twice(calls, request) == Append(Append(calls, request), request)

\* ai.models.generateContent: one call is handed to the provider
generateContent(calls, request) == Append(calls, request)

\* enhanceImage without its test of process.env.API_KEY
enhanceImageBegin_Unchecked(apiKey) == NoResult

\* enhanceImage up to its await: without a credential it throws before any
\* provider call, with one it issues generateContent and is pending
enhanceImageBegin(apiKey) ==
    IF ~apiKey THEN Throw(PlainError(<<KEY_NOT_SET>>)) ELSE NoResult

\* the first guard without its test of the prompt
MissingInput_PromptUnchecked ==
    ~Truthy(originalImage) \/ ~Truthy(originalImageMimeType)

\* the first guard of handleEnhanceClick
MissingInput ==
    ~Truthy(originalImage) \/ ~Truthy(prompt) \/ ~Truthy(originalImageMimeType)

\* handleEnhanceClick up to its await
handleEnhanceClick ==
    IF MissingInput
    THEN /\ error' = Str(<<MSG_NEED_INPUT>>)
         /\ UNCHANGED <<isLoading, enhancedImage, hasApiKeySelected, inflight>>
    ELSE IF ~env.apiKey
    THEN /\ hasApiKeySelected' = FALSE
         /\ error' = Str(<<MSG_NOT_CONFIGURED>>)
         /\ UNCHANGED <<isLoading, enhancedImage, inflight>>
    ELSE IF ~hasApiKeySelected
    THEN /\ error' = Str(<<MSG_SELECT_FIRST>>)
         /\ UNCHANGED <<isLoading, enhancedImage, hasApiKeySelected, inflight>>
    ELSE LET begun == enhanceImageBegin(env.apiKey)
         IN  /\ enhancedImage' = Undefined
             /\ IF begun.tag = "throw"
                THEN /\ error' = Str(EnhanceFailure(begun.err).message)
                     /\ hasApiKeySelected' =
                            IF EnhanceFailure(begun.err).reset THEN FALSE ELSE hasApiKeySelected
                     /\ isLoading' = FALSE
                     /\ UNCHANGED inflight
                ELSE /\ isLoading' = TRUE
                     /\ error' = UndefinedStr
                     /\ inflight' = generateContent(inflight,
                            Request("App", originalImage, originalImageMimeType,
                                    prompt, selectedResolution))
                     /\ UNCHANGED hasApiKeySelected

\* ids are drawn only while the run has some left
IdsLeft == nextId + Len(inflight) < MaxEnhancements

\* a click on the Enhance Image button, which is rendered with an image
\* and carries disabled={isEnhanceButtonDisabled}
EnhanceButtonClick ==
    /\ Mounted
    /\ Truthy(originalImage)
    /\ ~isEnhanceButtonDisabled
    /\ IdsLeft
    /\ handleEnhanceClick
    /\ UNCHANGED <<env, originalImage, originalImageMimeType, prompt, selectedResolution,
                   showHistory, historyItems, reads, storage, initPc,
                   selectPending, nextId, observed>>
    /\ LoadingEffect

\* handleEnhanceClick called as a function while no request is pending,
\* whatever the button's disabled attribute says
SubmitCall ==
    /\ Mounted
    /\ ~isLoading
    /\ IdsLeft
    /\ handleEnhanceClick
    /\ UNCHANGED <<env, originalImage, originalImageMimeType, prompt, selectedResolution,
                   showHistory, historyItems, reads, storage, initPc,
                   selectPending, nextId, observed>>
    /\ LoadingEffect

\* enhanceImage called by a caller other than the controller, which from
\* then on has seen nothing of the call until it settles
EnhanceImageCall(image, mime, text, resolution) ==
    /\ inflight = <<>>
    /\ LET begun == enhanceImageBegin(env.apiKey)
       IN  IF begun.tag = "throw"
           THEN /\ observed' = Observed(NotCalled, begun)
                /\ UNCHANGED inflight
           ELSE /\ observed' = NothingObserved
                /\ inflight' = generateContent(inflight,
                       Request("caller", image, mime, text, resolution))
    /\ UNCHANGED <<env, appVars, reads, storage, initPc, selectPending, nextId>>
    /\ UNCHANGED timerVars

\* a record built from the state at the time the call settles
NewHistoryItem_CurrentState(request, result) ==
    [id |-> nextId + 1,
     originalImage |-> originalImage,
     originalImageMimeType |-> originalImageMimeType,
     prompt |-> prompt,
     enhancedImage |-> result,
     timestamp |-> nextId + 1,
     resolution |-> selectedResolution]

\* a record whose id is not fresh
NewHistoryItem_FixedId(request, result) ==
    [id |-> 1,
     originalImage |-> request.originalImage,
     originalImageMimeType |-> request.originalImageMimeType,
     prompt |-> request.prompt,
     enhancedImage |-> result,
     timestamp |-> nextId + 1,
     resolution |-> request.resolution]

\* the record handleEnhanceClick saves after a success
NewHistoryItem(request, result) ==
    [id |-> nextId + 1,
     originalImage |-> request.originalImage,
     originalImageMimeType |-> request.originalImageMimeType,
     prompt |-> request.prompt,
     enhancedImage |-> result,
     timestamp |-> nextId + 1,
     resolution |-> request.resolution]

\* a continuation without the finally block: isLoading is cleared on
\* success only
EnhanceContinuation_NoFinally(request, result) ==
    IF result.tag = "return"
    THEN /\ isLoading' = FALSE
         /\ enhancedImage' = result.value
         /\ storage' = saveHistoryItem(storage, NewHistoryItem(request, result.value))
         /\ historyItems' = getHistory(storage')
         /\ nextId' = nextId + 1
         /\ UNCHANGED <<error, hasApiKeySelected>>
    ELSE /\ error' = Str(EnhanceFailure(result.err).message)
         /\ hasApiKeySelected' =
                IF EnhanceFailure(result.err).reset THEN FALSE ELSE hasApiKeySelected
         /\ UNCHANGED <<isLoading, enhancedImage, storage, historyItems, nextId>>

\* a continuation that keeps a record of a failed request as well
EnhanceContinuation_RecordsFailure(request, result) ==
    /\ isLoading' = FALSE
    /\ nextId' = nextId + 1
    /\ storage' = saveHistoryItem(storage, NewHistoryItem(request, result.value))
    /\ historyItems' = getHistory(storage')
    /\ IF result.tag = "return"
       THEN /\ enhancedImage' = result.value
            /\ UNCHANGED <<error, hasApiKeySelected>>
       ELSE /\ error' = Str(EnhanceFailure(result.err).message)
            /\ hasApiKeySelected' =
                   IF EnhanceFailure(result.err).reset THEN FALSE ELSE hasApiKeySelected
            /\ UNCHANGED enhancedImage

\* handleEnhanceClick after its await, for the request it was started with:
\* the rest of the try block, the catch block for whatever is thrown in it,
\* and the finally block
EnhanceContinuation(request, result) ==
    /\ isLoading' = FALSE
    /\ IF result.tag = "return"
       THEN /\ enhancedImage' = result.value
            /\ IF Truthy(result.value)
               THEN LET saved == saveHistoryItemResult(storage, NewHistoryItem(request, result.value))
                        listed == getHistoryResult(saved.value)
                        thrown == IF saved.tag = "throw" THEN saved.err ELSE listed.err
                    IN  /\ nextId' = nextId + 1
                        /\ storage' = IF saved.tag = "throw" THEN storage ELSE saved.value
                        /\ IF saved.tag = "throw" \/ listed.tag = "throw"
                           THEN /\ error' = Str(EnhanceFailure(thrown).message)
                                /\ hasApiKeySelected' =
                                       IF EnhanceFailure(thrown).reset
                                       THEN FALSE ELSE hasApiKeySelected
                                /\ UNCHANGED historyItems
                           ELSE /\ historyItems' = listed.value
                                /\ UNCHANGED <<error, hasApiKeySelected>>
               ELSE UNCHANGED <<storage, historyItems, nextId, error, hasApiKeySelected>>
       ELSE /\ error' = Str(EnhanceFailure(result.err).message)
            /\ hasApiKeySelected' =
                   IF EnhanceFailure(result.err).reset THEN FALSE ELSE hasApiKeySelected
            /\ UNCHANGED <<enhancedImage, storage, historyItems, nextId>>

\* handleEnhanceClick after its await when the component has unmounted:
\* the record is still made and saved, every state update is dropped
EnhanceContinuationUnmounted(request, result) ==
    /\ IF result.tag = "return" /\ Truthy(result.value)
       THEN /\ nextId' = nextId + 1
            /\ storage' = saveHistoryItem(storage, NewHistoryItem(request, result.value))
       ELSE UNCHANGED <<storage, nextId>>
    /\ UNCHANGED <<isLoading, enhancedImage, error, hasApiKeySelected, historyItems>>

\* generateContent of the i-th pending call settles with outcome; the rest
\* of enhanceImage and of its caller run to their end
ProviderCompletes(i, outcome) ==
    /\ i \in 1..Len(inflight)
    /\ LET request == inflight[i]
           result == enhanceImageSettle(outcome)
       IN  /\ inflight' = RemoveAt(inflight, i)
           /\ IF request.caller = "App" /\ ~Mounted
              THEN /\ EnhanceContinuationUnmounted(request, result)
                   /\ UNCHANGED observed
              ELSE IF request.caller = "App"
              THEN /\ EnhanceContinuation(request, result)
                   /\ UNCHANGED observed
              ELSE /\ observed' = Observed(outcome, result)
                   /\ UNCHANGED <<isLoading, enhancedImage, error, hasApiKeySelected,
                                  storage, historyItems, nextId>>
    /\ UNCHANGED <<env, originalImage, originalImageMimeType, prompt, selectedResolution,
                   showHistory, reads, initPc, selectPending>>
    /\ LoadingEffect

\* ------------------------------------------------------------------------
\* Credential selection: handleSelectApiKey
\* ------------------------------------------------------------------------
MaxPendingSelects == 1

\* the Select API Key banner or the Re-select API Key button is rendered
SelectKeyOffered ==
    \/ ~hasApiKeySelected
    \/ error.def /\ (Includes(error.msg, MSG_KEY_INVALID) \/ Includes(error.msg, API_KEY_ERROR))

\* handleSelectApiKey up to its await
SelectApiKeyClick ==
    /\ Mounted
    /\ SelectKeyOffered
    /\ IF env.aistudio
       THEN /\ selectPending < MaxPendingSelects
            /\ selectPending' = selectPending + 1
            /\ UNCHANGED error
       ELSE /\ error' = Str(<<MSG_NO_AISTUDIO>>)
            /\ UNCHANGED selectPending
    /\ UNCHANGED <<env, originalImage, originalImageMimeType, prompt, enhancedImage,
                   isLoading, hasApiKeySelected, selectedResolution, showHistory,
                   historyItems, reads, storage, initPc, inflight,
                   nextId, observed>>
    /\ UNCHANGED timerVars

\* a handler that marks the credential selected however the dialog ended
OpenSelectKeySettles_AlwaysSelected(ok) ==
    /\ selectPending > 0
    /\ selectPending' = selectPending - 1
    /\ hasApiKeySelected' = TRUE
    /\ error' = IF ok THEN UndefinedStr ELSE Str(<<MSG_SELECT_FAILED>>)
    /\ UNCHANGED <<env, originalImage, originalImageMimeType, prompt, enhancedImage,
                   isLoading, selectedResolution, showHistory, historyItems,
                   reads, storage, initPc, inflight, nextId, observed>>
    /\ UNCHANGED timerVars

\* window.aistudio.openSelectKey() settles; after an unmount the state
\* updates are dropped
OpenSelectKeySettles(ok) ==
    /\ selectPending > 0
    /\ selectPending' = selectPending - 1
    /\ IF ~Mounted
       THEN UNCHANGED <<hasApiKeySelected, error>>
       ELSE IF ok
       THEN /\ hasApiKeySelected' = TRUE
            /\ error' = UndefinedStr
       ELSE /\ error' = Str(<<MSG_SELECT_FAILED>>)
            /\ UNCHANGED hasApiKeySelected
    /\ UNCHANGED <<env, originalImage, originalImageMimeType, prompt, enhancedImage,
                   isLoading, selectedResolution, showHistory, historyItems,
                   reads, storage, initPc, inflight, nextId, observed>>
    /\ UNCHANGED timerVars

\* ------------------------------------------------------------------------
\* History view
\* ------------------------------------------------------------------------
OpenHistory ==
    /\ Mounted
    /\ ~showHistory
    /\ showHistory' = TRUE
    /\ UNCHANGED <<env, originalImage, originalImageMimeType, prompt, enhancedImage,
                   isLoading, error, hasApiKeySelected, selectedResolution,
                   historyItems, reads, storage, initPc, inflight,
                   selectPending, nextId, observed>>
    /\ UNCHANGED timerVars

CloseHistory ==
    /\ Mounted
    /\ showHistory
    /\ showHistory' = FALSE
    /\ UNCHANGED <<env, originalImage, originalImageMimeType, prompt, enhancedImage,
                   isLoading, error, hasApiKeySelected, selectedResolution,
                   historyItems, reads, storage, initPc, inflight,
                   selectPending, nextId, observed>>
    /\ UNCHANGED timerVars

\* handleRemoveHistoryItem for the i-th record shown
RemoveHistoryItem(i) ==
    /\ Mounted
    /\ showHistory
    /\ i \in 1..Len(historyItems)
    /\ storage' = removeHistoryItem(storage, historyItems[i].id)
    /\ historyItems' = getHistory(storage')
    /\ UNCHANGED <<env, originalImage, originalImageMimeType, prompt, enhancedImage,
                   isLoading, error, hasApiKeySelected, selectedResolution, showHistory,
                   reads, initPc, inflight, selectPending, nextId, observed>>
    /\ UNCHANGED timerVars

\* a clear-all that empties the store and leaves the list in memory
ClearAllHistory_KeepsList ==
    /\ Mounted
    /\ showHistory
    /\ Len(historyItems) > 0
    /\ storage' = clearHistory(storage)
    /\ historyItems' = historyItems
    /\ UNCHANGED <<env, originalImage, originalImageMimeType, prompt, enhancedImage,
                   isLoading, error, hasApiKeySelected, selectedResolution, showHistory,
                   reads, initPc, inflight, selectPending, nextId, observed>>
    /\ UNCHANGED timerVars

\* handleClearAllHistory: the button is rendered when records are shown
ClearAllHistory ==
    /\ Mounted
    /\ showHistory
    /\ Len(historyItems) > 0
    /\ storage' = clearHistory(storage)
    /\ historyItems' = <<>>
    /\ UNCHANGED <<env, originalImage, originalImageMimeType, prompt, enhancedImage,
                   isLoading, error, hasApiKeySelected, selectedResolution, showHistory,
                   reads, initPc, inflight, selectPending, nextId, observed>>
    /\ UNCHANGED timerVars

\* ------------------------------------------------------------------------
\* Specifications
\* ------------------------------------------------------------------------
\* the outcomes the provider is given in the runs of the whole application:
\* one of each class that enhanceImage and the controller tell apart
SampleOutcomes ==
    { Response("parts", <<Part(Undefined, Str(<<"sorry">>)), Part("Y", UndefinedStr)>>),
      Response("parts", <<Part(Undefined, Str(<<"sorry">>))>>),
      Response("parts", <<>>),
      Rejection(PlainError(<<NOT_FOUND>>)),
      Rejection(PlainError(<<M400, COLON, "quota">>)),
      Rejection(PlainError(<<M403, COLON, "quota">>)),
      Rejection(PlainError(<<M429, COLON, "quota">>)),
      Rejection(PlainError(<<"quota">>)),
      Rejection(NonError) }

UserActions ==
    \/ InitializeApp
    \/ \E selected \in BOOLEAN : HasSelectedApiKeyResolves(selected)
    \/ \E file \in Files : ChooseFile(file)
    \/ \E file \in Files : DropFile(file)
    \/ \E i \in 1..MaxPendingReads : ReadEnds(i)
    \/ \E text \in Prompts : SetPrompt(text)
    \/ \E resolution \in Resolutions : SetSelectedResolution(resolution)
    \/ ClearClick
    \/ EnhanceButtonClick
    \/ SelectApiKeyClick
    \/ \E ok \in BOOLEAN : OpenSelectKeySettles(ok)
    \/ OpenHistory
    \/ CloseHistory
    \/ \E i \in 1..MaxEnhancements : RemoveHistoryItem(i)
    \/ ClearAllHistory

\* the application as its user drives it
Next ==
    \/ UserActions
    \/ \E i \in 1..MaxEnhancements, outcome \in SampleOutcomes : ProviderCompletes(i, outcome)

Spec == Init /\ [][Next]_vars

\* the application with its handler also called as a function and, where no
\* credential is configured, its client also called directly (with a
\* credential the client is exercised by SpecClient)
NextCalled ==
    \/ Next
    \/ SubmitCall
    \/ ~env.apiKey /\ EnhanceImageCall("A", "image/png", "make it blue", DEFAULT_RESOLUTION)

SpecCalled == Init /\ [][NextCalled]_vars

\* the enhancement client alone, over every provider outcome of the bounds
NextClient ==
    \/ \E image \in {"A", "B"}, resolution \in RESOLUTION_OPTIONS :
           EnhanceImageCall(image, "image/png", "make it blue", resolution)
    \/ \E outcome \in ProviderOutcomes : ProviderCompletes(1, outcome)

SpecClient == Init /\ [][NextClient]_vars

\* the application in a browser whose localStorage works, is full or is
\* unavailable
InitFaulty == InitWith({Storage(mode, "absent", <<>>) : mode \in StorageModes})

SpecFaulty == InitFaulty /\ [][Next]_vars

\* the application with the timer of its status message running and with
\* its unmount: one image, one prompt, the button and the provider
NextTimed ==
    \/ InitializeApp
    \/ \E selected \in BOOLEAN : HasSelectedApiKeyResolves(selected)
    \/ \E file \in Files : DropFile(file)
    \/ \E i \in 1..MaxPendingReads : ReadEnds(i)
    \/ \E text \in Prompts : SetPrompt(text)
    \/ EnhanceButtonClick
    \/ \E i \in 1..MaxEnhancements, outcome \in SampleOutcomes : ProviderCompletes(i, outcome)
    \/ Tick
    \/ Unmount

SpecTimed == Init /\ [][NextTimed]_vars

\* ------------------------------------------------------------------------
\* The history store called on its own
\* ------------------------------------------------------------------------
\* a HistoryItem
HistoryItem(id, image, mime, text, enhanced, timestamp, resolution) ==
    [id |-> id, originalImage |-> image, originalImageMimeType |-> mime,
     prompt |-> text, enhancedImage |-> enhanced, timestamp |-> timestamp,
     resolution |-> resolution]

\* the records the store is handed
SampleItems ==
    {HistoryItem(id, image, "image/png", "make it blue", "Y", id, DEFAULT_RESOLUTION) :
         id \in {1, 2}, image \in {"A", "B"}}

\* what localStorage holds and how it answers when the store is first called
SampleStorages ==
    {Storage(mode, json, <<>>) :
         mode \in StorageModes, json \in {"absent", "empty", "malformed", "object", "list"}}

\* a call of one function of the store: which, on what storage, with what
StoreCall(op, store, arg) == [kind |-> "store", op |-> op, store |-> store, arg |-> arg]

\* saveHistoryItem(item) called
SaveCall(item) ==
    /\ StoredLen(storage) < MaxEnhancements
    /\ storage' = saveHistoryItem(storage, item)
    /\ observed' = Observed(StoreCall("save", storage, item),
                            saveHistoryItemResult(storage, item))
    /\ UNCHANGED <<env, appVars, reads, initPc, inflight, selectPending, nextId>>
    /\ UNCHANGED timerVars

\* getHistory() called
ListCall ==
    /\ observed' = Observed(StoreCall("list", storage, Undefined), getHistoryResult(storage))
    /\ UNCHANGED <<env, appVars, reads, storage, initPc, inflight, selectPending, nextId>>
    /\ UNCHANGED timerVars

\* removeHistoryItem(id) called
RemoveCall(id) ==
    /\ storage' = removeHistoryItem(storage, id)
    /\ observed' = Observed(StoreCall("remove", storage, id),
                            removeHistoryItemResult(storage, id))
    /\ UNCHANGED <<env, appVars, reads, initPc, inflight, selectPending, nextId>>
    /\ UNCHANGED timerVars

\* clearHistory() called
ClearCall ==
    /\ storage' = clearHistory(storage)
    /\ observed' = Observed(StoreCall("clear", storage, Undefined), clearHistoryResult(storage))
    /\ UNCHANGED <<env, appVars, reads, initPc, inflight, selectPending, nextId>>
    /\ UNCHANGED timerVars

InitStore == InitWith(SampleStorages)

NextStore ==
    \/ \E item \in SampleItems : SaveCall(item)
    \/ ListCall
    \/ \E id \in {1, 2, 3} : RemoveCall(id)
    \/ ClearCall

SpecStore == InitStore /\ [][NextStore]_vars

\* ------------------------------------------------------------------------
\* localStorage shared with another tab of the application
\* ------------------------------------------------------------------------
\* the record an enhancement in another tab saves
OtherTabItem ==
    HistoryItem(MaxEnhancements + 1, "B", "image/png", "make it blue", "Z",
                MaxEnhancements + 1, DEFAULT_RESOLUTION)

\* saveHistoryItem run by another tab on the same STORAGE_KEY
OtherTabSaves ==
    /\ \A k \in 1..StoredLen(storage) : storage.items[k].id # OtherTabItem.id
    /\ storage' = saveHistoryItem(storage, OtherTabItem)
    /\ UNCHANGED <<env, appVars, reads, initPc, inflight, selectPending, nextId, observed>>
    /\ UNCHANGED timerVars

\* the application with its history view, while another tab saves to the
\* same localStorage
NextShared ==
    \/ InitializeApp
    \/ \E selected \in BOOLEAN : HasSelectedApiKeyResolves(selected)
    \/ \E file \in Files : ChooseFile(file)
    \/ \E i \in 1..MaxPendingReads : ReadEnds(i)
    \/ \E text \in Prompts : SetPrompt(text)
    \/ EnhanceButtonClick
    \/ \E i \in 1..MaxEnhancements, outcome \in SampleOutcomes : ProviderCompletes(i, outcome)
    \/ OpenHistory
    \/ CloseHistory
    \/ \E i \in 1..MaxEnhancements + 1 : RemoveHistoryItem(i)
    \/ ClearAllHistory
    \/ OtherTabSaves

SpecShared == Init /\ [][NextShared]_vars

\* ------------------------------------------------------------------------
\* Properties
\* ------------------------------------------------------------------------
\* the calls in flight that the controller started
AppCalls == SelectSeq(inflight, LAMBDA request : request.caller = "App")

\* C1: at most one enhancement request is in flight at any time, and while
\* one is in flight the controller is loading: no sequence of user actions
\* starts a second call of enhanceImage before the first has settled.
C1_OneInFlight ==
    /\ Len(AppCalls) <= 1
    /\ Len(AppCalls) = 1 => isLoading

\* a request is pending and the user has meanwhile dropped another image
C1_Witness ==
    /\ isLoading
    /\ Len(inflight) = 1
    /\ Truthy(originalImage)
    /\ originalImage # inflight[1].originalImage

\* C2: a click on the enhance button made with an image, a MIME type, a
\* non-empty prompt, a resolution and a configured credential hands exactly
\* one call to the provider, carrying those values; no other step of the
\* application adds a call, and the settling of a call (a failure included)
\* takes that call away without starting another.
C2_ExactlyOneCall ==
    [][ /\ ( /\ EnhanceButtonClick
             /\ Truthy(originalImage)
             /\ Truthy(originalImageMimeType)
             /\ Truthy(prompt)
             /\ selectedResolution \in RESOLUTION_OPTIONS
             /\ env.apiKey )
           => inflight' = Append(inflight,
                  Request("App", originalImage, originalImageMimeType, prompt,
                          selectedResolution))
        /\ ~EnhanceButtonClick => Len(inflight') <= Len(inflight)
        /\ (\E i \in 1..Len(inflight), outcome \in SampleOutcomes :
                ProviderCompletes(i, outcome))
           => Len(inflight') = Len(inflight) - 1 ]_vars

\* the one call of a submit is in flight with the submitted values
C2_Witness ==
    /\ env.apiKey
    /\ inflight = <<Request("App", originalImage, originalImageMimeType, prompt,
                            selectedResolution)>>
    /\ selectedResolution = "4K"

\* C3: handleEnhanceClick run while the prompt is empty or the image or its
\* MIME type is missing hands no call to the provider: it sets an error
\* message, leaves isLoading false and changes nothing else.
C3_InvalidSubmitNoCall ==
    [][ ( /\ SubmitCall
          /\ ~Truthy(originalImage) \/ ~Truthy(prompt) \/ ~Truthy(originalImageMimeType) )
        => /\ inflight' = inflight
           /\ isLoading' = FALSE
           /\ error'.def /\ error'.msg # <<>>
           /\ UNCHANGED <<env, originalImage, originalImageMimeType, prompt,
                          enhancedImage, hasApiKeySelected, selectedResolution,
                          showHistory, historyItems, reads, storage, initPc,
                          selectPending, nextId, observed>> ]_vars

\* a submit was made with an image but an empty prompt and was turned away
C3_Witness ==
    /\ error = Str(<<MSG_NEED_INPUT>>)
    /\ Truthy(originalImage)
    /\ prompt = ""
    /\ inflight = <<>>
    /\ ~isLoading

\* C4: where no credential is configured no call ever reaches the provider:
\* enhanceImage called directly throws at once a plain Error, not an
\* ApiError and without errorType, and a submit with valid inputs ends
\* before enhanceImage with an error message set and the
\* credential-selected flag false.
C4_NotConfigured ==
    /\ [](~env.apiKey => inflight = <<>>)
    /\ [][ ~env.apiKey =>
            /\ EnhanceImageCall("A", "image/png", "make it blue", DEFAULT_RESOLUTION)
               => /\ observed'.outcome = NotCalled
                  /\ observed'.result.tag = "throw"
                  /\ observed'.result.err.class = "Error"
                  /\ observed'.result.err.errorType = Undefined
                  /\ observed'.result.err.message = <<KEY_NOT_SET>>
            /\ ( /\ EnhanceButtonClick \/ SubmitCall
                 /\ Truthy(originalImage) /\ Truthy(prompt) /\ Truthy(originalImageMimeType) )
               => /\ error'.def /\ error'.msg # <<>>
                  /\ hasApiKeySelected' = FALSE
                  /\ isLoading' = FALSE
                  /\ UNCHANGED <<inflight, enhancedImage, observed>> ]_vars

\* without a credential the client has thrown its plain Error and a click
\* on the enabled button has been turned away
C4_Witness ==
    /\ ~env.apiKey
    /\ observed.result.tag = "throw"
    /\ observed.result.err.class = "Error"
    /\ error = Str(<<MSG_NOT_CONFIGURED>>)
    /\ ~hasApiKeySelected
    /\ Truthy(prompt)

\* ------------------------------------------------------------------------
\* Properties of the enhancement client (SpecClient)
\* ------------------------------------------------------------------------
\* the observed response carries a parts list
HasParts(outcome) == outcome.kind = "response" /\ outcome.cand = "parts"

\* the positions of the parts of the observed response that carry image bytes
ImagePositions(outcome) ==
    {i \in 1..Len(outcome.parts) : outcome.parts[i].data \notin {Undefined, ""}}

\* the text of the observed response: its text parts, joined in list order
JoinedText(outcome) ==
    LET textAt[i \in 0..Len(outcome.parts)] ==
            IF i = 0 THEN <<>>
            ELSE textAt[i - 1] \o (IF outcome.parts[i].text.def
                                   THEN outcome.parts[i].text.msg ELSE <<>>)
    IN  textAt[Len(outcome.parts)]

\* C5: for every response whose part list holds at least one part with
\* inline image bytes, enhanceImage returns exactly the bytes of the first
\* such part in list order, whatever text parts precede or follow it.
C5_FirstImageReturned ==
    LET outcome == observed.outcome
    IN  (HasParts(outcome) /\ ImagePositions(outcome) # {})
        => LET first == CHOOSE i \in ImagePositions(outcome) :
                            \A j \in ImagePositions(outcome) : i <= j
           IN  observed.result = Return(outcome.parts[first].data)

\* a text part came first, the image after it, and the image was returned
C5_Witness ==
    /\ HasParts(observed.outcome)
    /\ Len(observed.outcome.parts) = 2
    /\ observed.outcome.parts[1].text.def
    /\ observed.outcome.parts[1].data = Undefined
    /\ observed.outcome.parts[2].data = "Z"
    /\ observed.result.tag = "return"

\* C6: for every response with no inline-image part but with text,
\* enhanceImage throws the ApiError it built in its try block: kind
\* MODEL_TEXT_RESPONSE, status 200, detail equal to that text, the message
\* quoting it; the catch block passes it on unchanged.
C6_TextOnlyResponse ==
    LET outcome == observed.outcome
    IN  (HasParts(outcome) /\ ImagePositions(outcome) = {} /\ JoinedText(outcome) # <<>>)
        => observed.result =
               Throw([class |-> "ApiError",
                      message |-> <<"Model returned text: \"">> \o JoinedText(outcome)
                                      \o <<"\". No image data found.">>,
                      statusCode |-> 200,
                      errorType |-> "MODEL_TEXT_RESPONSE",
                      errorDetails |-> [def |-> TRUE, msg |-> JoinedText(outcome)]])

\* a response of two text parts was answered with MODEL_TEXT_RESPONSE
C6_Witness ==
    /\ HasParts(observed.outcome)
    /\ Len(observed.outcome.parts) = 2
    /\ ImagePositions(observed.outcome) = {}
    /\ observed.result.err.errorType = "MODEL_TEXT_RESPONSE"
    /\ observed.result.err.errorDetails.msg = <<"sorry", "sorry">>

\* C7: for every response with neither an inline-image part nor usable
\* text, an empty or missing candidate or part list included, enhanceImage
\* throws an ApiError of kind NO_IMAGE_DATA with status 500.
C7_NoImageData ==
    LET outcome == observed.outcome
    IN  ( /\ outcome.kind = "response"
          /\ \/ outcome.cand # "parts"
             \/ ImagePositions(outcome) = {} /\ JoinedText(outcome) = <<>> )
        => /\ observed.result.tag = "throw"
           /\ observed.result.err.class = "ApiError"
           /\ observed.result.err.errorType = "NO_IMAGE_DATA"
           /\ observed.result.err.statusCode = 500

\* the kind the priority order of the claim gives a provider error message
ExpectedKind(message) ==
    LET has(token) == \E i \in 1..Len(message) : message[i] = token
    IN  IF has(NOT_FOUND) THEN "API_KEY_INVALID"
        ELSE IF has(M400) THEN "BAD_REQUEST"
        ELSE IF has(M403) THEN "PERMISSION_DENIED"
        ELSE IF has(M429) THEN "RESOURCE_EXHAUSTED"
        ELSE IF has(M500) THEN "INTERNAL_SERVER_ERROR"
        ELSE "UNKNOWN_ERROR"

\* C8: classification is first-match-wins: a provider Error whose message
\* matches the credential-rejection pattern is API_KEY_INVALID even with a
\* status marker in it, otherwise it gets the kind of the first marker in
\* the order bad-request, permission-denied, resource-exhausted,
\* internal-error, otherwise UNKNOWN_ERROR; every call that fails after the
\* provider settled throws an ApiError with exactly one kind.
C8_FirstMatchWins ==
    LET outcome == observed.outcome
        result == observed.result
    IN  /\ (outcome.kind = "throw" /\ outcome.thrown.class = "Error")
           => /\ result.tag = "throw"
              /\ result.err.class = "ApiError"
              /\ result.err.errorType = ExpectedKind(outcome.thrown.message)
        /\ (outcome.kind # "none" /\ result.tag = "throw")
           => /\ result.err.class = "ApiError"
              /\ result.err.errorType \in
                     {"API_KEY_INVALID", "BAD_REQUEST", "PERMISSION_DENIED",
                      "RESOURCE_EXHAUSTED", "INTERNAL_SERVER_ERROR", "UNKNOWN_ERROR",
                      "MODEL_TEXT_RESPONSE", "NO_IMAGE_DATA"}

\* a message naming internal-error first, then permission-denied and the
\* credential rejection was classified API_KEY_INVALID
C8_Witness ==
    /\ observed.outcome.kind = "throw"
    /\ observed.outcome.thrown.message = <<M500, M403, NOT_FOUND>>
    /\ observed.result.err.errorType = "API_KEY_INVALID"

\* ------------------------------------------------------------------------
\* Properties of the settling of a request (Spec)
\* ------------------------------------------------------------------------
\* the step is the settling of a call the controller started, with outcome
AppSettles(outcome) ==
    \E i \in 1..Len(inflight) :
        ProviderCompletes(i, outcome) /\ inflight[i].caller = "App"

\* C9: whenever a request of the controller settles with a failure that
\* enhanceImage classified as API_KEY_INVALID, the credential-selected flag
\* is false once the request has settled and the selection action is
\* offered again.
C9_KeyInvalidResetsFlag ==
    [][ \A outcome \in SampleOutcomes :
            ( /\ AppSettles(outcome)
              /\ enhanceImageSettle(outcome).tag = "throw"
              /\ enhanceImageSettle(outcome).err.errorType = "API_KEY_INVALID" )
            => /\ hasApiKeySelected' = FALSE
               /\ SelectKeyOffered' ]_vars

\* a request settled with the credential rejected: the flag is down and the
\* message of the rejection is shown
C9_Witness ==
    /\ ~hasApiKeySelected
    /\ ~isLoading
    /\ inflight = <<>>
    /\ error = Str(<<MSG_KEY_INVALID, API_KEY_ERROR, MSG_RESELECT>>)

\* values the catch block of handleEnhanceClick can be handed: ApiErrors of
\* every kind, plain Errors and a value that is no Error
ThrownValues ==
    {ApiError(<<"quota">>, st, kind, UndefinedStr) :
         st \in {NoStatus, 200, 400, 401, 403, 429, 500},
         kind \in {Undefined, "API_KEY_INVALID", "BAD_REQUEST", "PERMISSION_DENIED",
                   "RESOURCE_EXHAUSTED", "INTERNAL_SERVER_ERROR", "UNKNOWN_ERROR",
                   "MODEL_TEXT_RESPONSE", "NO_IMAGE_DATA"}}
        \cup {PlainError(<<"quota">>), PlainError(<<API_KEY_ERROR>>), PlainError(<<>>), NonError}

\* every value the catch block can be handed gets a non-empty message
EveryFailureHasMessage ==
    \A err \in ThrownValues : EnhanceFailure(err).message # <<>>

\* C10: whenever a request is pending and the provider call completes with
\* any outcome (an image, any classified ApiError, a plain Error, a value
\* that is no Error), the controller has left Pending once the call has
\* settled: isLoading is false and no call is in flight, so a submit is
\* accepted again; after every failure a non-empty error message is set.
C10_SettleLeavesPending ==
    /\ [](EveryFailureHasMessage)
    /\ [][ \A outcome \in SampleOutcomes :
               (isLoading /\ AppSettles(outcome))
               => /\ isLoading' = FALSE
                  /\ AppCalls' = <<>>
                  /\ isEnhanceButtonDisabled'
                         = (~Truthy(originalImage) \/ ~Truthy(prompt) \/ ~hasApiKeySelected')
                  /\ enhanceImageSettle(outcome).tag = "throw"
                         => error'.def /\ error'.msg # <<>> ]_vars

\* a pending request was rejected with a value that is no Error: the
\* controller is idle again and shows a message
C10_Witness ==
    /\ ~isLoading
    /\ inflight = <<>>
    /\ error = Str(<<MSG_API_ERROR, UNKNOWN_ENHANCE>>)
    /\ hasApiKeySelected

\* ------------------------------------------------------------------------
\* Properties of a successful enhancement (SpecFaulty)
\* ------------------------------------------------------------------------
\* the step is the settling of the i-th call, started by the controller,
\* with an outcome for which enhanceImage returns image bytes
SuccessSettles(i, outcome) ==
    /\ ProviderCompletes(i, outcome)
    /\ inflight[i].caller = "App"
    /\ enhanceImageSettle(outcome).tag = "return"

\* the step shows the bytes returned and puts one record in front of the
\* history, in memory and in the store, made of the submitted values
RecordAdded(i, outcome) ==
    LET request == inflight[i]
        Y == enhanceImageSettle(outcome).value
    IN  /\ enhancedImage' = Y
        /\ Len(historyItems') = Len(historyItems) + 1
        /\ Tail(historyItems') = historyItems
        /\ getHistory(storage') = historyItems'
        /\ Head(historyItems').originalImage = request.originalImage
        /\ Head(historyItems').originalImageMimeType = request.originalImageMimeType
        /\ Head(historyItems').prompt = request.prompt
        /\ Head(historyItems').resolution = request.resolution
        /\ Head(historyItems').enhancedImage = Y

\* C11 as stated: when a submitted request succeeds with image bytes Y, the
\* result state holds Y and exactly one new record is added at the front of
\* the history, with the image, MIME type, prompt and resolution of the
\* submit and with enhanced image Y.
C11_RecordAdded ==
    [][ \A i \in 1..Len(inflight), outcome \in SampleOutcomes :
            SuccessSettles(i, outcome) => RecordAdded(i, outcome) ]_vars

\* C11 amended: the same, provided localStorage accepts the write (it is
\* available and not over quota).
C11_RecordAddedWhenStored ==
    [][ \A i \in 1..Len(inflight), outcome \in SampleOutcomes :
            (SuccessSettles(i, outcome) /\ storage.mode = "ok")
            => RecordAdded(i, outcome) ]_vars

\* a request submitted with image A at 4K has succeeded after the user
\* dropped image B: the record holds A, the result is shown
C11_Witness ==
    /\ storage.mode = "ok"
    /\ enhancedImage = "Y"
    /\ Len(historyItems) = 1
    /\ historyItems[1].originalImage = "A"
    /\ historyItems[1].resolution = "4K"
    /\ historyItems[1].enhancedImage = "Y"
    /\ originalImage = "B"

\* ------------------------------------------------------------------------
\* Properties of the history store (SpecStore)
\* ------------------------------------------------------------------------
\* the last call of the store was op, made on a storage that lists as a
\* sequence of records
Called(op) ==
    /\ observed.outcome.kind = "store"
    /\ observed.outcome.op = op
    /\ getHistory(observed.outcome.store) # NotAList

\* what getHistory() gave before the last call of the store
ListedBefore == getHistory(observed.outcome.store)

\* C12 as stated: for every stored list L and item X, getHistory() after
\* saveHistoryItem(X) is X followed by L in its previous order, every
\* record unchanged.
C12_SavePrepends ==
    Called("save") => getHistory(storage) = <<observed.outcome.arg>> \o ListedBefore

\* C12 amended: the same, provided localStorage accepts the write (it is
\* available and not over quota).
C12_SavePrependsWhenStored ==
    (Called("save") /\ observed.outcome.store.mode = "ok")
    => getHistory(storage) = <<observed.outcome.arg>> \o ListedBefore

\* record 1 of image A was saved, then record 2 of image B: the list is
\* the second followed by the first
C12_Witness ==
    /\ Called("save")
    /\ storage.mode = "ok"
    /\ Len(getHistory(storage)) = 2
    /\ getHistory(storage)[1] = observed.outcome.arg
    /\ getHistory(storage)[1].id = 2
    /\ getHistory(storage)[1].originalImage = "B"
    /\ getHistory(storage)[2].id = 1
    /\ getHistory(storage)[2].originalImage = "A"

\* the positions of list whose record has another id than id
OtherPositions(list, id) == {k \in 1..Len(list) : list[k].id # id}

\* C13: for every stored list and id, getHistory() after
\* removeHistoryItem(id) holds no record with that id and every other
\* record in its previous relative order; with the id absent the list is
\* unchanged.
C13_RemoveFilters ==
    Called("remove")
    => LET id == observed.outcome.arg
           after == getHistory(storage)
       IN  /\ \A k \in 1..Len(after) : after[k].id # id
           /\ Len(after) = Cardinality(OtherPositions(ListedBefore, id))
           /\ \A k \in 1..Len(after) :
                  \E j \in OtherPositions(ListedBefore, id) :
                      /\ after[k] = ListedBefore[j]
                      /\ Cardinality({m \in OtherPositions(ListedBefore, id) : m < j}) = k - 1
           /\ OtherPositions(ListedBefore, id) = 1..Len(ListedBefore)
                  => after = ListedBefore

\* the older of two records was removed and the newer one is left
C13_Witness ==
    /\ Called("remove")
    /\ Len(ListedBefore) = 2
    /\ ListedBefore[1].id = 2
    /\ ListedBefore[2].id = 1
    /\ observed.outcome.arg = 1
    /\ getHistory(storage) = <<ListedBefore[1]>>

\* C14: for every stored list, getHistory() after clearHistory() is the
\* empty sequence.
C14_ClearEmpties ==
    (observed.outcome.kind = "store" /\ observed.outcome.op = "clear")
    => /\ getHistory(storage) # NotAList
       /\ getHistory(storage) = <<>>

\* a list of two records was cleared
C14_Witness ==
    /\ Called("clear")
    /\ Len(ListedBefore) = 2
    /\ storage.json = "absent"

\* C15: whenever the persisted blob is empty, unreadable or malformed
\* (anything that is not a serialized list of history records),
\* getHistory() returns the empty sequence and raises no error.
C15_MalformedListsEmpty ==
    ( /\ observed.outcome.kind = "store"
      /\ observed.outcome.op = "list"
      /\ \/ observed.outcome.store.json # "list"
         \/ observed.outcome.store.mode = "unavailable" )
    => /\ observed.result.tag = "return"
       /\ observed.result.value # NotAList
       /\ observed.result.value = <<>>

\* ------------------------------------------------------------------------
\* Properties of the application with a failing localStorage (SpecFaulty)
\* ------------------------------------------------------------------------
\* storages with and without records, in every mode and with every blob
StoragesToCall ==
    {Storage(mode, json, items) :
         mode \in StorageModes,
         json \in {"absent", "empty", "malformed", "object", "list"},
         items \in SeqsUpTo(SampleItems, 1)}

\* none of the four functions of the store ends by throwing
StoreNeverThrows ==
    \A store \in StoragesToCall :
        /\ getHistoryResult(store).tag = "return"
        /\ clearHistoryResult(store).tag = "return"
        /\ \A item \in SampleItems : saveHistoryItemResult(store, item).tag = "return"
        /\ \A id \in {1, 2} : removeHistoryItemResult(store, id).tag = "return"

C17_DistinctIdsNewestFirst ==
    LET list == getHistory(storage)
    IN  \A j, k \in 1..Len(list) :
            j < k => /\ list[j].id # list[k].id
                     /\ list[j].timestamp > list[k].timestamp

\* two enhancements have succeeded and both records are kept
C17_Witness ==
    /\ Len(getHistory(storage)) = 2
    /\ getHistory(storage)[1].id = 2
    /\ getHistory(storage)[2].id = 1

\* ------------------------------------------------------------------------
\* Properties of the controller's view state (Spec)
\* ------------------------------------------------------------------------
\* C18: in every reachable state the submit control is enabled only if an
\* image is present, no request is in flight, the prompt is non-empty and
\* the credential flag says a credential is available.
C18_EnabledOnlyIfReady ==
    ~isEnhanceButtonDisabled
    => /\ Truthy(originalImage)
       /\ AppCalls = <<>>
       /\ ~isLoading
       /\ Truthy(prompt)
       /\ hasApiKeySelected

\* after one request has settled the control is enabled again
C18_Witness ==
    /\ ~isEnhanceButtonDisabled
    /\ Mounted
    /\ nextId = 1
    /\ Truthy(enhancedImage)

\* C19: an upload (handleImageSelected) from any state sets the current
\* image and MIME type to the uploaded ones, removes any enhanced result and
\* clears any error, and leaves the prompt, the resolution, the credential
\* flag and the history as they are.
C19_UploadFrame ==
    [][ \A i \in 1..MaxPendingReads :
            ReadEnds(i)
            => /\ originalImage' = reads[i].data
               /\ originalImageMimeType' = reads[i].type
               /\ enhancedImage' = Undefined
               /\ ~error'.def
               /\ UNCHANGED <<prompt, selectedResolution, hasApiKeySelected,
                              historyItems, storage>> ]_vars

\* after an enhancement of image A at 4K, image B was uploaded: the result
\* is gone, prompt, resolution and history are kept
C19_Witness ==
    /\ originalImage = "B"
    /\ originalImageMimeType = "image/jpeg"
    /\ enhancedImage = Undefined
    /\ ~error.def
    /\ ~isLoading
    /\ prompt = "make it blue"
    /\ selectedResolution = "4K"
    /\ Len(historyItems) = 1
    /\ historyItems[1].originalImage = "A"

\* C20: a clear action returns the controller to Idle: image, MIME type,
\* enhanced result and error become absent, the prompt becomes empty and
\* the resolution becomes the default "1K"; the credential flag and the
\* history are unchanged.
C20_ClearFrame ==
    [][ ClearClick
        => /\ originalImage' = Undefined
           /\ originalImageMimeType' = Undefined
           /\ enhancedImage' = Undefined
           /\ ~error'.def
           /\ prompt' = ""
           /\ selectedResolution' = "1K"
           /\ UNCHANGED <<hasApiKeySelected, historyItems, storage>> ]_vars

\* after an enhancement at 4K the user cleared: everything is back to its
\* initial value except the history
C20_Witness ==
    /\ originalImage = Undefined
    /\ originalImageMimeType = Undefined
    /\ enhancedImage = Undefined
    /\ ~error.def
    /\ prompt = ""
    /\ selectedResolution = "1K"
    /\ Len(historyItems) = 1
    /\ historyItems[1].resolution = "4K"

FailedCall ==
    \/ EnhanceButtonClick /\ inflight' = inflight
    \/ \E i \in 1..Len(inflight), outcome \in SampleOutcomes :
           ProviderCompletes(i, outcome) /\ enhanceImageSettle(outcome).tag = "throw"

\* C22: on mount, with the host's hasSelectedApiKey the credential-selected
\* flag is set to the host's answer, without it to whether process
\* configuration supplies a credential; once the check has completed the
\* flag keeps its value until a select-credential action or a failed call
\* changes it.
C22_MountCredentialCheck ==
    [][ /\ (InitializeApp /\ ~env.aistudio)
           => (initPc' = "done" /\ hasApiKeySelected' = env.apiKey)
        /\ (InitializeApp /\ env.aistudio)
           => (initPc' = "awaitHasSelectedApiKey" /\ hasApiKeySelected' = hasApiKeySelected)
        /\ \A selected \in BOOLEAN :
               HasSelectedApiKeyResolves(selected)
               => (initPc' = "done" /\ hasApiKeySelected' = selected)
        /\ (initPc = "done" /\ hasApiKeySelected' # hasApiKeySelected)
           => (OpenSelectKeySettles(TRUE) \/ FailedCall) ]_vars

\* without the host and without a configured credential the mount check
\* has turned the flag off, and the user went on to upload and type
C22_Witness ==
    /\ ~env.aistudio
    /\ ~env.apiKey
    /\ initPc = "done"
    /\ ~hasApiKeySelected
    /\ ~error.def
    /\ originalImage = "A"
    /\ Truthy(prompt)

\* C23: after a select-credential action, if the host's openSelectKey
\* completes without error the credential-selected flag is true and the
\* error is cleared, the host not being queried again; if openSelectKey
\* fails or the host lacks it, the flag is unchanged and an error message
\* is set.
C23_SelectCredential ==
    [][ /\ OpenSelectKeySettles(TRUE)
           => /\ hasApiKeySelected'
              /\ ~error'.def
              /\ initPc' = initPc
              /\ selectPending' = selectPending - 1
        /\ OpenSelectKeySettles(FALSE)
           => /\ hasApiKeySelected' = hasApiKeySelected
              /\ error' = Str(<<MSG_SELECT_FAILED>>)
        /\ (SelectApiKeyClick /\ ~env.aistudio)
           => /\ hasApiKeySelected' = hasApiKeySelected
              /\ error'.def /\ error'.msg # <<>>
              /\ selectPending' = selectPending
        /\ (SelectApiKeyClick /\ env.aistudio)
           => /\ selectPending' = selectPending + 1
              /\ UNCHANGED <<hasApiKeySelected, error, initPc>> ]_vars

\* the host's dialog failed while the flag was off: the flag is still off
\* and the failure is shown
C23_Witness ==
    /\ env.aistudio
    /\ selectPending = 0
    /\ ~hasApiKeySelected
    /\ error = Str(<<MSG_SELECT_FAILED>>)

\* the failure enhanceImage ends with is a rejection of the credential
CredentialRejected(outcome) ==
    LET result == enhanceImageSettle(outcome)
    IN  result.err.statusCode = 401 \/ result.err.errorType = "API_KEY_INVALID"

\* what the provider answers a call made with a credential that is not
\* usable: the rejection as not found or as lacking permission
UnusableCredentialOutcomes ==
    { Rejection(PlainError(<<NOT_FOUND>>)),
      Rejection(PlainError(<<M403, COLON, "quota">>)) }

\* C24 as stated: with the flag set to true while the credential is not
\* usable, the next enhancement call that fails sets the flag back to false.
C24_NextFailureResetsFlag ==
    [][ \A outcome \in UnusableCredentialOutcomes :
            (AppSettles(outcome) /\ hasApiKeySelected)
            => hasApiKeySelected' = FALSE ]_vars

\* C24 amended: the next call that fails because the credential is
\* rejected (status 401 or kind API_KEY_INVALID) or is not configured sets
\* the flag back to false; a call that fails in any other way leaves the
\* flag as it is.
C24_CredentialFailureResetsFlag ==
    [][ /\ \A outcome \in SampleOutcomes :
               ( /\ hasApiKeySelected
                 /\ Len(inflight') < Len(inflight)
                 /\ enhanceImageSettle(outcome).tag = "throw"
                 /\ AppSettles(outcome) )
               => hasApiKeySelected' = ~CredentialRejected(outcome)
        /\ (EnhanceButtonClick /\ hasApiKeySelected /\ ~env.apiKey)
           => (hasApiKeySelected' = FALSE /\ inflight' = inflight) ]_vars

\* the host took the credential for selected although none is configured:
\* the submit failed and turned the flag off
C24_Witness ==
    /\ env.aistudio
    /\ ~env.apiKey
    /\ initPc = "done"
    /\ ~hasApiKeySelected
    /\ error = Str(<<MSG_NOT_CONFIGURED>>)
    /\ inflight = <<>>

\* ------------------------------------------------------------------------
\* Properties of the controller's history list (SpecShared, SpecFaulty)
\* ------------------------------------------------------------------------
\* C25: the history is read in full from the store on app initialization
\* and every time the history view is opened, so the list shown when the
\* view opens equals the store's content at that moment.
C25_ReadOnOpen ==
    [][ /\ InitializeApp => historyItems' = getHistory(storage)
        /\ OpenHistory => historyItems' = getHistory(storage) ]_vars

\* C26: the controller's history list is a read-through cache of the
\* store: after initialization and after every history operation of the
\* controller (the save of a success, remove item, clear all) historyItems
\* equals what getHistory() returns from the persisted store (a step that
\* leaves the two different is none of these).
C26_ReadThroughCache ==
    [][ historyItems' # getHistory(storage')
        => ~( \/ InitializeApp
              \/ \E i \in 1..Len(inflight), outcome \in SampleOutcomes :
                     enhanceImageSettle(outcome).tag = "return" /\ SuccessSettles(i, outcome)
              \/ \E i \in 1..Len(historyItems) : RemoveHistoryItem(i)
              \/ ClearAllHistory ) ]_vars

\* of two records the newer was removed in the history view: one is left,
\* in memory and in the store
C26_Witness ==
    /\ showHistory
    /\ nextId = 2
    /\ Len(historyItems) = 1
    /\ historyItems[1].id = 1
    /\ getHistory(storage) = historyItems

\* ------------------------------------------------------------------------
\* Properties of the classification of provider errors (SpecClient)
\* ------------------------------------------------------------------------
\* the provider rejected the observed call with an Error
ProviderError == observed.outcome.kind = "throw" /\ observed.outcome.thrown.class = "Error"

\* the markers of the claim with their kinds and status codes
MarkerKinds ==
    { <<M400, "BAD_REQUEST", 400>>, <<M403, "PERMISSION_DENIED", 403>>,
      <<M429, "RESOURCE_EXHAUSTED", 429>>, <<M500, "INTERNAL_SERVER_ERROR", 500>> }

Has(message, token) == \E i \in 1..Len(message) : message[i] = token

\* the part of message that follows the first occurrence of marker and the
\* ": " that separates it
AfterMarker(message, marker) ==
    LET first == CHOOSE i \in 1..Len(message) :
                     message[i] = marker /\ \A j \in 1..(i - 1) : message[j] # marker
        start == IF first < Len(message) /\ message[first + 1] = COLON
                 THEN first + 2 ELSE first + 1
    IN  SubSeq(message, start, Len(message))

\* C27 as stated: for every provider error whose message contains one of
\* the status markers, the failure carries the corresponding kind and
\* status code and its detail is the substring of the message that follows
\* the marker.
C27_MarkerDetail ==
    ProviderError
    => \A mk \in MarkerKinds :
           Has(observed.outcome.thrown.message, mk[1])
           => /\ observed.result.tag = "throw"
              /\ observed.result.err.errorType = mk[2]
              /\ observed.result.err.statusCode = mk[3]
              /\ observed.result.err.errorDetails
                     = [def |-> TRUE, msg |-> AfterMarker(observed.outcome.thrown.message, mk[1])]

\* the positions where marker is followed by ": "
SeparatorsAt(message, marker) ==
    {i \in 1..(Len(message) - 1) : message[i] = marker /\ message[i + 1] = COLON}

\* the text between the first marker-and-colon and the next one, or the
\* end of the message; empty when the marker is never followed by ": "
BetweenSeparators(message, marker) ==
    LET at == SeparatorsAt(message, marker)
    IN  IF at = {} THEN <<>>
        ELSE LET first == CHOOSE i \in at : \A j \in at : i <= j
                 later == at \ {first}
                 last == IF later = {} THEN Len(message)
                         ELSE (CHOOSE i \in later : \A j \in later : i <= j) - 1
             IN  SubSeq(message, first + 2, last)

\* the first marker, in the order 400, 403, 429, 500, that message contains
FirstMarker(message) ==
    IF Has(message, M400) THEN <<M400, "BAD_REQUEST", 400>>
    ELSE IF Has(message, M403) THEN <<M403, "PERMISSION_DENIED", 403>>
    ELSE IF Has(message, M429) THEN <<M429, "RESOURCE_EXHAUSTED", 429>>
    ELSE <<M500, "INTERNAL_SERVER_ERROR", 500>>

\* C27 amended: for every provider error whose message contains a status
\* marker and not the credential-rejection text, the failure carries the
\* kind and status code of the first such marker in the order 400, 403,
\* 429, 500; its detail is the text between the first occurrence of that
\* marker followed by ": " and the next such occurrence or the end of the
\* message, and the whole message when that text is empty or the marker is
\* never followed by ": ".
C27_MarkerDetailOrMessage ==
    LET message == observed.outcome.thrown.message
    IN  ( /\ ProviderError
          /\ \E mk \in MarkerKinds : Has(message, mk[1])
          /\ ~Has(message, NOT_FOUND) )
        => LET mk == FirstMarker(message)
               between == BetweenSeparators(message, mk[1])
           IN  /\ observed.result.tag = "throw"
               /\ observed.result.err.class = "ApiError"
               /\ observed.result.err.errorType = mk[2]
               /\ observed.result.err.statusCode = mk[3]
               /\ observed.result.err.errorDetails
                      = [def |-> TRUE,
                         msg |-> IF between = <<>> THEN message ELSE between]

\* a rejection that names the marker without ": " after it was given the
\* whole message as its detail
C27_Witness ==
    /\ ProviderError
    /\ observed.outcome.thrown.message = <<"quota", M429>>
    /\ observed.result.err.errorType = "RESOURCE_EXHAUSTED"
    /\ observed.result.err.errorDetails = [def |-> TRUE, msg |-> <<"quota", M429>>]

\* the provider rejected the observed call with an Error whose message has
\* neither the credential-rejection text nor a status marker
UnmatchedError ==
    /\ ProviderError
    /\ ~Has(observed.outcome.thrown.message, NOT_FOUND)
    /\ \A mk \in MarkerKinds : ~Has(observed.outcome.thrown.message, mk[1])

\* C28 as stated: every provider error that matches neither the
\* credential-rejection pattern nor a status marker makes enhanceImage fail
\* with kind UNKNOWN_ERROR and the underlying message passed through
\* verbatim; no such error escapes unclassified or crashes the caller.
C28_UnknownVerbatim ==
    UnmatchedError
    => /\ observed.result.tag = "throw"
       /\ observed.result.err.class = "ApiError"
       /\ observed.result.err.errorType = "UNKNOWN_ERROR"
       /\ observed.result.err.message = observed.outcome.thrown.message
       /\ EnhanceFailure(observed.result.err).message # <<>>

\* C28 amended: the same, the message being the underlying message when
\* that is not empty and the text "An unknown error occurred during image
\* enhancement." when it is empty or the value thrown is no Error; the
\* caller shows it after "An API error occurred: " and keeps the flag.
C28_UnknownMessageOrDefault ==
    (UnmatchedError \/ (observed.outcome.kind = "throw"
                           /\ observed.outcome.thrown.class = "other"))
    => /\ observed.result.tag = "throw"
       /\ observed.result.err.class = "ApiError"
       /\ observed.result.err.errorType = "UNKNOWN_ERROR"
       /\ observed.result.err.message
              = (IF observed.outcome.thrown.message # <<>>
                 THEN observed.outcome.thrown.message ELSE <<UNKNOWN_ENHANCE>>)
       /\ EnhanceFailure(observed.result.err)
              = [reset |-> FALSE,
                 message |-> <<MSG_API_ERROR>> \o observed.result.err.message]

\* a rejection speaking only of quota was passed on as UNKNOWN_ERROR with
\* its message
C28_Witness ==
    /\ UnmatchedError
    /\ observed.outcome.thrown.message = <<"quota", COLON, "quota">>
    /\ observed.result.err.errorType = "UNKNOWN_ERROR"
    /\ observed.result.err.message = <<"quota", COLON, "quota">>

\* ------------------------------------------------------------------------
\* Properties of a result and the image it is shown with (Spec)
\* ------------------------------------------------------------------------
\* C29: in every reachable state where an enhanced result is displayed,
\* that result was produced from the original image displayed with it: a
\* result is attached only next to the image its request was made with (an
\* upload that completes while the request is pending included), and while
\* a result stays the image stays.
C29_ResultOfShownImage ==
    [][ /\ \A i \in 1..Len(inflight), outcome \in SampleOutcomes :
               (enhanceImageSettle(outcome).tag = "return" /\ SuccessSettles(i, outcome))
               => originalImage' = inflight[i].originalImage
        /\ (Truthy(enhancedImage) /\ enhancedImage' = enhancedImage)
           => originalImage' = originalImage ]_vars

\* C30: a failed enhancement, of any failure kind, leaves the history
\* store, the current image, its MIME type, the prompt and the selected
\* resolution unchanged and attaches no enhanced result, and the controller
\* is no longer loading: the same request can be submitted again.
C30_FailureFrame ==
    [][ /\ \A outcome \in SampleOutcomes :
               ( /\ Len(inflight') < Len(inflight)
                 /\ enhanceImageSettle(outcome).tag = "throw"
                 /\ AppSettles(outcome) )
               => /\ UNCHANGED <<storage, historyItems, originalImage,
                                 originalImageMimeType, prompt, selectedResolution>>
                  /\ enhancedImage' = Undefined
                  /\ isLoading' = FALSE
                  /\ error'.def
        /\ (inflight' = inflight /\ EnhanceButtonClick)
           => /\ UNCHANGED <<storage, historyItems, originalImage,
                             originalImageMimeType, prompt, selectedResolution,
                             enhancedImage>>
              /\ isLoading' = FALSE
              /\ error'.def ]_vars

\* after a success at 4K the next request for the same image was turned
\* away by the rate limit: image, prompt and resolution are as submitted,
\* the one record is kept, no result is shown and the button is enabled
C30_Witness ==
    /\ error = Str(<<MSG_RATE_LIMIT>>)
    /\ originalImage = "A"
    /\ Truthy(prompt)
    /\ selectedResolution = "4K"
    /\ enhancedImage = Undefined
    /\ Len(historyItems) = 1
    /\ getHistory(storage) = historyItems
    /\ ~isEnhanceButtonDisabled

====
